---- MODULE Spec2Model ----
(***************************************************************************)
(* Healthy Fire MVP (src/app.py): a single-user check-in dashboard.        *)
(* The record store (load_data / save_row over one CSV file), the scorer   *)
(* (compute_scores, quadrant, status_from_balance, status_icon, quick_tip) *)
(* and the script run that ties them together (check-in form handler,      *)
(* "Load + Score", date selection, rendering).                             *)
(*                                                                         *)
(* Numbers that are floats in the program (Fuel, Drain, NetFire and the    *)
(* thresholds 3 and 1.5) are held exactly, in sixths: the float x is the   *)
(* integer 6*x.  Every mean of one to three integers and every threshold   *)
(* of the program is a whole number of sixths, and the floats the program  *)
(* computes from answers 1..5 are at least 1/6 away from a threshold they  *)
(* do not equal, so float rounding never changes a comparison.             *)
(***************************************************************************)
EXTENDS Integers, Sequences, FiniteSets, TLC

VARIABLES
    csv_file,    \* the file at CSV_PATH: [state, lines]
    today,       \* the date_input widget
    answers,     \* the six radio widgets of the check-in form: Q -> 1..5 or None
    df_raw,      \* the table loaded at the top of the script run (line 194)
    message,     \* what the form handler showed: "none", "error", "success"
    pc,          \* position of the script: "idle", "load_score", "render"
    sel,         \* the selected scored row (line 249), or NoSel
    view         \* what the run rendered

vars == <<csv_file, today, answers, df_raw, message, pc, sel, view>>

-----------------------------------------------------------------------------
(* Bounds of the model *)

\* dates the user can pick: day 1..MaxDate of one month
MaxDate == 2
\* answer patterns the user can enter in the store specification
MaxPattern == 2
\* status_icon / status_from_balance are tried on every NetFire from
\* -MaxNetFire/6 to MaxNetFire/6 in steps of 1/6
MaxNetFire == 30

-----------------------------------------------------------------------------
(* Values *)

\* Python's None (an unselected radio) and pandas' NaN (a missing cell)
None == 0 - 1000
NaN == None

\* the float n/d, in sixths
Real(n, d) == (n * 6) \div d

\* float comparisons: every comparison with NaN is False
Gt(a, b) == a # NaN /\ b # NaN /\ a > b
Lt(a, b) == a # NaN /\ b # NaN /\ a < b
Ge(a, b) == a # NaN /\ b # NaN /\ a >= b

QUESTIONS == <<"Q1", "Q2", "Q3", "Q4", "Q5", "Q6">>
QKeys == {QUESTIONS[i] : i \in 1..Len(QUESTIONS)}

\* the values of SCALE
SCALE == 1..5

COLUMNS == <<"date">> \o QUESTIONS

Dates == 1..MaxDate

\* pd.to_datetime(today): the Timestamp of midnight of that day, held as the
\* day number
pd_to_datetime(d) == d

-----------------------------------------------------------------------------
(* The CSV text of a table *)

\* a Timestamp of midnight is written as a calendar date
DateText(d) == IF d < 10 THEN "2024-01-0" \o ToString(d)
               ELSE "2024-01-" \o ToString(d)

\* an integer cell; a missing value is written as the empty field
CellText(v) == IF v = None THEN "" ELSE ToString(v)

ParseDate(s) == CHOOSE d \in 1..31 : DateText(d) = s

ParseCell(s) == IF s = "" THEN NaN ELSE CHOOSE n \in 0..9 : ToString(n) = s

\* one line of the file, fields in the order of COLUMNS
CsvLine(row) == [i \in 1..Len(COLUMNS) |->
                    IF i = 1 THEN DateText(row["date"])
                    ELSE CellText(row[COLUMNS[i]])]

ParseLine(line) == [c \in {COLUMNS[i] : i \in 1..Len(COLUMNS)} |->
                      LET i == CHOOSE j \in 1..Len(COLUMNS) : COLUMNS[j] = c
                      IN IF c = "date" THEN ParseDate(line[i])
                         ELSE ParseCell(line[i])]

\* df.to_csv(path, index=False): the file exists afterwards and holds the rows
to_csv(df) == [state |-> "ok", lines |-> [i \in 1..Len(df) |-> CsvLine(df[i])]]

\* pd.read_csv(path, parse_dates=["date"]): raises on a file it cannot parse
read_csv(f) == IF f.state = "unreadable"
               THEN [raised |-> TRUE, df |-> <<>>]
               ELSE [raised |-> FALSE,
                     df |-> [i \in 1..Len(f.lines) |-> ParseLine(f.lines[i])]]

os_path_exists(f) == f.state # "absent"

\* pd.DataFrame(columns=[...]): no rows
EmptyFrame == <<>>

-----------------------------------------------------------------------------
(* Record store *)

\* faulty variant: load_data without its try/except
load_data_no_except(f) ==
    IF os_path_exists(f) THEN read_csv(f)
    ELSE [raised |-> FALSE, df |-> EmptyFrame]

load_data(f) ==
    IF os_path_exists(f)
    THEN LET r == read_csv(f)
         IN IF r.raised THEN [raised |-> FALSE, df |-> EmptyFrame]
            ELSE [raised |-> FALSE, df |-> r.df]
    ELSE [raised |-> FALSE, df |-> EmptyFrame]

\* df[df["date"] != d]
RowsOtherThan(df, d) == SelectSeq(df, LAMBDA r : r["date"] # d)

RECURSIVE InsertByDate(_, _)
InsertByDate(sorted, r) ==
    IF sorted = <<>> THEN <<r>>
    ELSE IF r["date"] < Head(sorted)["date"] THEN <<r>> \o sorted
    ELSE <<Head(sorted)>> \o InsertByDate(Tail(sorted), r)

\* df.sort_values("date"): ascending, rows with equal dates in any order the
\* sort leaves them (here: the order they had)
RECURSIVE sort_values(_)
sort_values(df) ==
    IF df = <<>> THEN <<>>
    ELSE InsertByDate(sort_values(SubSeq(df, 1, Len(df) - 1)), df[Len(df)])

\* faulty variants of save_row: no date filter; no sort; the filter inverted
save_row_no_filter(f, row) ==
    to_csv(sort_values(Append(load_data(f).df, row)))

save_row_no_sort(f, row) ==
    to_csv(Append(RowsOtherThan(load_data(f).df, row["date"]), row))

save_row_keep_same(f, row) ==
    to_csv(sort_values(Append(
        SelectSeq(load_data(f).df, LAMBDA r : r["date"] = row["date"]), row)))

\* the file after save_row(path, row)
save_row(f, row) ==
    LET df0 == load_data(f).df
        df1 == RowsOtherThan(df0, row["date"])
        df2 == Append(df1, row)
        df3 == sort_values(df2)
    IN to_csv(df3)

-----------------------------------------------------------------------------
(* Scorer *)

\* faulty variant: the sum in place of the mean
mean_sum_only(row, cols) ==
    LET present == {i \in 1..Len(cols) : row[cols[i]] # NaN}
        RECURSIVE Sum(_)
        Sum(S) == IF S = {} THEN 0
                  ELSE LET i == CHOOSE j \in S : TRUE
                       IN row[cols[i]] + Sum(S \ {i})
    IN IF present = {} THEN NaN ELSE Real(Sum(present), 1)

\* the mean of the cells of `row` in columns `cols`, missing cells skipped
\* (DataFrame.mean(axis=1)); NaN when every cell is missing
mean(row, cols) ==
    LET present == {i \in 1..Len(cols) : row[cols[i]] # NaN}
        RECURSIVE Sum(_)
        Sum(S) == IF S = {} THEN 0
                  ELSE LET i == CHOOSE j \in S : TRUE
                       IN row[cols[i]] + Sum(S \ {i})
    IN IF present = {} THEN NaN ELSE Real(Sum(present), Cardinality(present))

\* float subtraction
Minus(a, b) == IF a = NaN \/ b = NaN THEN NaN ELSE a - b

\* faulty variant: the thresholds of Fuel taken strictly
quadrant_strict(row) ==
    LET fuel == row["Fuel"]
        drain == row["Drain"]
    IN IF Gt(fuel, Real(3, 1)) /\ Lt(drain, Real(3, 1)) THEN "Sustainable"
       ELSE IF Gt(fuel, Real(3, 1)) /\ Ge(drain, Real(3, 1)) THEN "Fast Burner"
       ELSE IF Lt(fuel, Real(3, 1)) /\ Ge(drain, Real(3, 1)) THEN "Exhausted"
       ELSE "Detached"

quadrant(row) ==
    LET fuel == row["Fuel"]
        drain == row["Drain"]
    IN IF Ge(fuel, Real(3, 1)) /\ Lt(drain, Real(3, 1)) THEN "Sustainable"
       ELSE IF Ge(fuel, Real(3, 1)) /\ Ge(drain, Real(3, 1)) THEN "Fast Burner"
       ELSE IF Lt(fuel, Real(3, 1)) /\ Ge(drain, Real(3, 1)) THEN "Exhausted"
       ELSE "Detached"

\* one row with a column added
WithColumn(row, name, v) ==
    [c \in DOMAIN row \cup {name} |-> IF c = name THEN v ELSE row[c]]

\* the row of compute_scores' result for one row of the table
score_row(row) ==
    LET r1 == WithColumn(row, "Fuel", mean(row, <<"Q1", "Q2", "Q3">>))
        r2 == WithColumn(r1, "Drain", mean(row, <<"Q4", "Q5", "Q6">>))
        r3 == WithColumn(r2, "NetFire", Minus(r2["Fuel"], r2["Drain"]))
    IN WithColumn(r3, "Profile", quadrant(r3))

compute_scores(df) ==
    IF df = EmptyFrame THEN df
    ELSE [i \in 1..Len(df) |-> score_row(df[i])]

status_from_balance(net_fire) ==
    IF Gt(net_fire, Real(3, 2)) THEN "Healthy Fire"
    ELSE IF Lt(net_fire, 0 - Real(3, 2)) THEN "Fire at Risk"
    ELSE "Flickering Fire"

\* faulty variant: 1.5 itself shown green
status_icon_inclusive(net_fire) ==
    IF Ge(net_fire, Real(3, 2)) THEN "green"
    ELSE IF Lt(net_fire, 0 - Real(3, 2)) THEN "red"
    ELSE "yellow"

\* the icons, by colour: green, red and yellow circle
status_icon(net_fire) ==
    IF Gt(net_fire, Real(3, 2)) THEN "green"
    ELSE IF Lt(net_fire, 0 - Real(3, 2)) THEN "red"
    ELSE "yellow"

\* the two tips of the strong and the weak band
TIP_MAINTAIN ==
    "Your fire is strong. Maintain it: protect sleep windows and one screen-free recovery block today."
TIP_DIAL_DOWN ==
    "Dial down drain: pick one task to drop/defer and schedule 30 min for active recovery (walk, stretch)."

\* the keys of quick_tip's `items`, in insertion order, and the column each reads
ITEMS == <<"Sleep/Recovery (Q1)", "Motivation (Q2)", "Support (Q3)",
           "Exhaustion (Q4)", "Overload (Q5)", "Switching off (Q6)">>

\* the lookup table `tips` (the en dash of the Q1 tip written as a hyphen)
tips(item) ==
    CASE item = "Sleep/Recovery (Q1)" -> "Aim for a calm wind-down: 20-30 min without screens before bed."
      [] item = "Motivation (Q2)" -> "Reconnect with purpose: note 1 thing today that feels meaningful."
      [] item = "Support (Q3)" -> "Ask for a micro-help: a 10-minute check-in or quick feedback."
      [] item = "Exhaustion (Q4)" -> "Insert a 10-minute micro-break between blocks of work."
      [] item = "Overload (Q5)" -> "Say no to one non-essential task today."
      [] item = "Switching off (Q6)" -> "Do a phone-free walk after work to create a boundary."

\* min(items, key=items.get): walks the keys in order and keeps the first one
\* whose value no later key undercuts
RECURSIVE MinFrom(_, _, _)
MinFrom(row, best, i) ==
    IF i > Len(ITEMS) THEN best
    ELSE IF row[QUESTIONS[i]] < row[QUESTIONS[best]] THEN MinFrom(row, i, i + 1)
    ELSE MinFrom(row, best, i + 1)

\* faulty variant of the walk: a later key of equal value replaces the best
RECURSIVE MinFromLast(_, _, _)
MinFromLast(row, best, i) ==
    IF i > Len(ITEMS) THEN best
    ELSE IF row[QUESTIONS[i]] <= row[QUESTIONS[best]] THEN MinFromLast(row, i, i + 1)
    ELSE MinFromLast(row, best, i + 1)

\* faulty variants of quick_tip: the last minimal item; no NetFire bands
quick_tip_last_min(row) ==
    LET nf == row["NetFire"]
    IN IF Gt(nf, Real(3, 2)) THEN TIP_MAINTAIN
       ELSE IF Lt(nf, 0 - Real(3, 2)) THEN TIP_DIAL_DOWN
       ELSE tips(ITEMS[MinFromLast(row, 1, 2)])

quick_tip_weakest_only(row) == tips(ITEMS[MinFrom(row, 1, 2)])

quick_tip(row) ==
    LET nf == row["NetFire"]
    IN IF Gt(nf, Real(3, 2)) THEN TIP_MAINTAIN
       ELSE IF Lt(nf, 0 - Real(3, 2)) THEN TIP_DIAL_DOWN
       ELSE LET weakest == ITEMS[MinFrom(row, 1, 2)]
            IN tips(weakest)

-----------------------------------------------------------------------------
(* The script run *)

NoSel == [kind |-> "none"]
NoView == [kind |-> "none"]
\* an exception that reached Streamlit: the run ends with a traceback
ExceptionView == [kind |-> "exception"]

\* faulty variant: only the Fuel items checked
missing_fuel_only(a) == {k \in {"Q1", "Q2", "Q3"} : a[k] = None}

\* missing = [k for k, v in answers.items() if v is None]
missing(a) == {k \in QKeys : a[k] = None}

\* {"date": pd.to_datetime(today)} | answers
MakeRow(d, a) ==
    [c \in {"date"} \cup QKeys |-> IF c = "date" THEN pd_to_datetime(d) ELSE a[c]]

\* what the user can enter in the form: pattern k of answers, the radios in
\* `unset` never selected
Pattern(k) ==
    [q \in QKeys |->
        LET i == CHOOSE j \in 1..Len(QUESTIONS) : QUESTIONS[j] = q
        IN ((k + i - 2) % 5) + 1]

Fill(k, unset) == [q \in QKeys |-> IF q \in unset THEN None ELSE Pattern(k)[q]]

\* the radios a submission leaves unselected: none, any single one, or all
Unanswered == {{}} \cup {{q} : q \in QKeys} \cup {QKeys}

FormInputs == {Fill(k, unset) : k \in 1..MaxPattern, unset \in Unanswered}

\* A run of the script in which the form is not submitted (the page is opened,
\* or a widget outside the form changes): lines 194-224.
Rerun(d) ==
    /\ pc = "idle"
    /\ today' = d
    /\ message' = "none"
    /\ sel' = NoSel
    /\ LET ld == load_data(csv_file)
       IN IF ld.raised
          THEN /\ view' = ExceptionView
               /\ pc' = "idle"
               /\ df_raw' = df_raw
          ELSE /\ view' = NoView
               /\ pc' = "load_score"
               /\ df_raw' = ld.df
    /\ UNCHANGED <<csv_file, answers>>

\* A run of the script in which "Check my Fire" is pressed with the radios at
\* `a`: lines 194-233.  The date input is outside the form: changing it is a
\* run of its own (Rerun), and the submission reads its current value.
CheckinSubmit(a) ==
    /\ pc = "idle"
    /\ today' = today
    /\ answers' = a
    /\ sel' = NoSel
    /\ LET ld == load_data(csv_file)
       IN IF ld.raised
          THEN /\ view' = ExceptionView
               /\ pc' = "idle"
               /\ message' = "none"
               /\ UNCHANGED <<csv_file, df_raw>>
          ELSE /\ view' = NoView
               /\ pc' = "load_score"
               /\ df_raw' = ld.df
               /\ IF missing(a) # {}
                  THEN /\ message' = "error"
                       /\ csv_file' = csv_file
                  ELSE /\ csv_file' = save_row(csv_file, MakeRow(today, a))
                       /\ message' = "success"

\* "Load + Score" and "Selected date": lines 237-249.  The selectbox holds the
\* dates of the scored table; the user's choice is any of them.
LoadAndScore ==
    /\ pc = "load_score"
    /\ LET ld == load_data(csv_file)
       IN IF ld.raised
          THEN /\ view' = ExceptionView
               /\ pc' = "idle"
               /\ sel' = NoSel
          ELSE LET df_scored == compute_scores(ld.df)
               IN IF df_scored = EmptyFrame
                  THEN /\ view' = [kind |-> "no_data"]
                       /\ pc' = "idle"
                       /\ sel' = NoSel
                  ELSE \E i \in 1..Len(df_scored) :
                         LET selected_date == DateText(df_scored[i]["date"])
                             matching == SelectSeq(df_scored,
                                 LAMBDA r : DateText(r["date"]) = selected_date)
                         IN /\ sel' = matching[Len(matching)]
                            /\ view' = view
                            /\ pc' = "render"
    /\ UNCHANGED <<csv_file, today, answers, df_raw, message>>

\* The rest of the page, lines 252-417: status line, profile line, quick tip.
Render ==
    /\ pc = "render"
    /\ view' = [kind |-> "dashboard",
                icon |-> status_icon(sel["NetFire"]),
                status |-> status_from_balance(sel["NetFire"]),
                profile |-> sel["Profile"],
                tip |-> quick_tip(sel)]
    /\ pc' = "idle"
    /\ UNCHANGED <<csv_file, today, answers, df_raw, message, sel>>

-----------------------------------------------------------------------------
(* The application: any file state at start, then runs of the script *)

Unselected == [q \in QKeys |-> None]

Init ==
    /\ csv_file \in {[state |-> "absent", lines |-> <<>>],
                     [state |-> "unreadable", lines |-> <<>>]}
    /\ today \in Dates
    /\ answers = Unselected
    /\ df_raw = EmptyFrame
    /\ message = "none"
    /\ pc = "load_score"
    /\ sel = NoSel
    /\ view = NoView

Next ==
    \/ \E d \in Dates : Rerun(d)
    \/ \E a \in FormInputs : CheckinSubmit(a)
    \/ LoadAndScore
    \/ Render

Spec == Init /\ [][Next]_vars

(* The scorer on every row of answers: the state right after the first       *)
(* check-in was saved, for each of the 5^6 complete answer sets.             *)
InitScore ==
    /\ today = 1
    /\ answers \in [QKeys -> SCALE]
    /\ csv_file = save_row([state |-> "absent", lines |-> <<>>], MakeRow(today, answers))
    /\ df_raw = EmptyFrame
    /\ message = "success"
    /\ pc = "load_score"
    /\ sel = NoSel
    /\ view = NoView

NextScore ==
    \/ LoadAndScore
    \/ Render

SpecScore == InitScore /\ [][NextScore]_vars

(* The status line on every NetFire of the grid, boundaries included: the    *)
(* page about to be rendered for a selected row with that NetFire.           *)
InitStatus ==
    /\ today = 1
    /\ answers \in {Pattern(k) : k \in 1..MaxPattern}
    /\ csv_file = save_row([state |-> "absent", lines |-> <<>>], MakeRow(today, answers))
    /\ df_raw = EmptyFrame
    /\ message = "success"
    /\ pc = "render"
    /\ \E nf \in (0 - MaxNetFire)..MaxNetFire :
          sel = [score_row(MakeRow(today, answers)) EXCEPT !["NetFire"] = nf]
    /\ view = NoView

NextStatus == Render

SpecStatus == InitStatus /\ [][NextStatus]_vars

-----------------------------------------------------------------------------
(* Properties *)

\* the persisted table as load_data returns it
Table == load_data(csv_file).df

\* the lines of the persisted file
Lines == csv_file.lines

\* the sums of the answers the form holds: 3*Fuel and 3*Drain
FuelSum == answers["Q1"] + answers["Q2"] + answers["Q3"]
DrainSum == answers["Q4"] + answers["Q5"] + answers["Q6"]

\* C1: the persisted table never holds two records of one date, and right
\* after a saved check-in it holds exactly one record of the submitted date,
\* carrying the six submitted answers.
C1_UpsertOnePerDate ==
    LET dates == [i \in 1..Len(Lines) |-> ParseDate(Lines[i][1])]
    IN /\ Len(Table) = Len(Lines)
       /\ \A i, j \in 1..Len(Lines) : dates[i] = dates[j] => i = j
       /\ message = "success" =>
             /\ Cardinality({i \in 1..Len(Lines) : dates[i] = pd_to_datetime(today)}) = 1
             /\ \A i \in 1..Len(Lines) :
                   dates[i] = pd_to_datetime(today) =>
                      /\ Table[i]["date"] = pd_to_datetime(today)
                      /\ \A q \in QKeys : Table[i][q] = answers[q]

\* a check-in was just saved over a record of the same date with other answers
C1_Witness ==
    /\ message = "success"
    /\ \E i \in 1..Len(df_raw) :
          /\ df_raw[i]["date"] = today
          /\ \E q \in QKeys : df_raw[i][q] # answers[q]

\* C2: the persisted table, as written and as loaded, is in ascending order
\* of date after every write.
C2_SortedByDate ==
    /\ \A i \in 1..(Len(Table) - 1) : Table[i]["date"] <= Table[i + 1]["date"]
    /\ \A i \in 1..(Len(csv_file.lines) - 1) :
          ParseDate(csv_file.lines[i][1]) <= ParseDate(csv_file.lines[i + 1][1])

\* a check-in was just saved for a date earlier than every record the table held
C2_Witness ==
    /\ message = "success"
    /\ Len(df_raw) >= 1
    /\ \A i \in 1..Len(df_raw) : today < df_raw[i]["date"]
    /\ Len(Table) = Len(df_raw) + 1

\* no line of the persisted file has an answer field that is not a number of
\* the scale
NoMissingPersisted ==
    \A i \in 1..Len(Lines) :
       \A k \in 2..Len(COLUMNS) : ParseCell(Lines[i][k]) \in SCALE

\* C3: a submission with at least one unanswered item shows the error and
\* leaves the file exactly as it was; no record with a missing answer is ever
\* persisted.
C3_IncompleteRejected ==
    [][/\ (/\ pc = "idle"
           /\ message' # "none"
           /\ \E q \in QKeys : answers'[q] = None)
          => (message' = "error" /\ csv_file' = csv_file)
       /\ NoMissingPersisted']_vars

\* a submission with exactly one unanswered item was rejected while the table
\* held records
C3_Witness ==
    /\ message = "error"
    /\ Cardinality({q \in QKeys : answers[q] = None}) = 1
    /\ Len(Table) >= 1

\* C4: in every step, every record of the persisted file stays as it is
\* unless the step is a saved check-in for that record's date, and every
\* record the step adds or changes is the one of the submitted date.
C4_NeverDeleted ==
    [][LET before == Lines
           after == Lines'
           saved == pc = "idle" /\ message' = "success"
       IN /\ \A i \in 1..Len(before) :
                \/ \E j \in 1..Len(after) : after[j] = before[i]
                \/ saved /\ ParseDate(before[i][1]) = pd_to_datetime(today')
          /\ \A j \in 1..Len(after) :
                \/ \E i \in 1..Len(before) : before[i] = after[j]
                \/ saved /\ ParseDate(after[j][1]) = pd_to_datetime(today')]_vars

\* a check-in was just saved while the table held a record of another date,
\* which is still there
C4_Witness ==
    /\ message = "success"
    /\ \E i \in 1..Len(df_raw) :
          /\ df_raw[i]["date"] # today
          /\ \E j \in 1..Len(Table) : Table[j] = df_raw[i]

\* C5: load_data never raises; on an absent or unreadable file it returns the
\* empty table, and the run shows "no data yet" and stops before a date is
\* selected or anything is rendered.
C5_LoadNeverFails ==
    /\ view.kind # "exception"
    /\ ~load_data(csv_file).raised
    /\ csv_file.state # "ok" =>
          /\ load_data(csv_file).df = EmptyFrame
          /\ pc # "render"
          /\ sel = NoSel
          /\ pc = "idle" => view.kind = "no_data"

\* a run over an unreadable file ended with "no data yet"
C5_Witness ==
    /\ csv_file.state = "unreadable"
    /\ pc = "idle"
    /\ view.kind = "no_data"

\* C6: the Profile of a scored row is the quadrant of (Fuel >= 3, Drain >= 3),
\* 3 itself counting as >= 3.
C6_ProfileQuadrant ==
    sel # NoSel =>
       /\ sel["Profile"] =
             (IF FuelSum >= 9 /\ DrainSum < 9 THEN "Sustainable"
              ELSE IF FuelSum >= 9 /\ DrainSum >= 9 THEN "Fast Burner"
              ELSE IF FuelSum < 9 /\ DrainSum >= 9 THEN "Exhausted"
              ELSE "Detached")
       /\ view.kind = "dashboard" => view.profile = sel["Profile"]

\* all six answers are 3 and the page shows Fast Burner
C6_Witness ==
    /\ \A q \in QKeys : answers[q] = 3
    /\ view.kind = "dashboard"
    /\ view.profile = "Fast Burner"

\* C7: Fuel and Drain are the means of Q1..Q3 and Q4..Q6, both within [1,5],
\* and NetFire is their difference, within [-4,4].
C7_ScoreRanges ==
    sel # NoSel =>
       /\ 3 * sel["Fuel"] = Real(FuelSum, 1)
       /\ 3 * sel["Drain"] = Real(DrainSum, 1)
       /\ sel["NetFire"] = sel["Fuel"] - sel["Drain"]
       /\ Real(1, 1) <= sel["Fuel"] /\ sel["Fuel"] <= Real(5, 1)
       /\ Real(1, 1) <= sel["Drain"] /\ sel["Drain"] <= Real(5, 1)
       /\ 0 - Real(4, 1) <= sel["NetFire"] /\ sel["NetFire"] <= Real(4, 1)

\* a scored row at the upper end of the range: NetFire = 4
C7_Witness ==
    /\ sel # NoSel
    /\ sel["NetFire"] = Real(4, 1)
    /\ sel["Fuel"] = Real(5, 1)

\* C8: the status line is decided by NetFire alone, with strict thresholds:
\* above 1.5 Healthy Fire / green, below -1.5 Fire at Risk / red, anything
\* else (1.5 and -1.5 included) Flickering Fire / yellow.
C8_StatusBands ==
    view.kind = "dashboard" =>
       LET nf == sel["NetFire"]
       IN /\ 2 * nf > 3 * 6 => view.status = "Healthy Fire" /\ view.icon = "green"
          /\ 2 * nf < 0 - 3 * 6 => view.status = "Fire at Risk" /\ view.icon = "red"
          /\ (2 * nf <= 3 * 6 /\ 2 * nf >= 0 - 3 * 6) =>
                view.status = "Flickering Fire" /\ view.icon = "yellow"

\* the status line of a row whose NetFire is exactly 1.5
C8_Witness ==
    /\ view.kind = "dashboard"
    /\ sel["NetFire"] = Real(3, 2)
    /\ view.status = "Flickering Fire"
    /\ view.icon = "yellow"

\* the first question, in the order Q1..Q6, whose answer is the minimum
FirstWeakest ==
    CHOOSE i \in 1..Len(QUESTIONS) :
       /\ \A j \in 1..Len(QUESTIONS) : answers[QUESTIONS[i]] <= answers[QUESTIONS[j]]
       /\ \A j \in 1..(i - 1) : answers[QUESTIONS[j]] > answers[QUESTIONS[i]]

\* C9: the quick tip is the maintenance tip when NetFire > 1.5, the
\* drain-reduction tip when NetFire < -1.5, and otherwise the tip of the first
\* question among Q1..Q6 holding the minimum answer.
C9_QuickTip ==
    view.kind = "dashboard" =>
       view.tip =
          (IF 2 * (FuelSum - DrainSum) > 9 THEN TIP_MAINTAIN
           ELSE IF 2 * (FuelSum - DrainSum) < 0 - 9 THEN TIP_DIAL_DOWN
           ELSE tips(ITEMS[FirstWeakest]))

\* a flickering row whose minimum is shared by two questions, neither of them
\* Q1: the tip shown is the one of the earlier question
C9_Witness ==
    /\ view.kind = "dashboard"
    /\ view.status = "Flickering Fire"
    /\ \E i, j \in 2..Len(QUESTIONS) :
          /\ i < j
          /\ FirstWeakest = i
          /\ answers[QUESTIONS[j]] = answers[QUESTIONS[i]]
          /\ view.tip = tips(ITEMS[i])

\* the answers of the quick-tip example
ExampleAnswers ==
    [q \in QKeys |->
        CASE q = "Q1" -> 2 [] q = "Q2" -> 4 [] q = "Q3" -> 4
          [] q = "Q4" -> 1 [] q = "Q5" -> 1 [] q = "Q6" -> 1]

\* C10 as stated: for Q1=2, Q2=4, Q3=4, Q4=1, Q5=1, Q6=1 NetFire is in the
\* flickering band and the quick tip is the Q1 (Sleep/Recovery) tip.
C10_Original ==
    (answers = ExampleAnswers /\ view.kind = "dashboard") =>
       /\ 0 - Real(3, 2) <= sel["NetFire"] /\ sel["NetFire"] <= Real(3, 2)
       /\ view.status = "Flickering Fire"
       /\ view.tip = tips("Sleep/Recovery (Q1)")

\* C10 amended: for those answers Fuel = 10/3, Drain = 1 and NetFire = 7/3,
\* above 1.5: the status is Healthy Fire and the quick tip is the maintenance
\* tip, no weakest item being looked for.
C10_Amended ==
    (answers = ExampleAnswers /\ view.kind = "dashboard") =>
       /\ sel["NetFire"] = Real(7, 3)
       /\ sel["NetFire"] > Real(3, 2)
       /\ view.status = "Healthy Fire"
       /\ view.tip = TIP_MAINTAIN

\* the page rendered for the example's answers
C10_Witness ==
    /\ answers = ExampleAnswers
    /\ view.kind = "dashboard"
    /\ sel["Q1"] = 2

====
